---------------------------- MODULE Spec2Model ----------------------------
(***************************************************************************)
(* node-dis-file: chunked storage of a payload on a webhook transport.     *)
(*                                                                         *)
(* The model follows one DisFile upload call (uploadFile or                *)
(* uploadFileStream) and one download call of the primary handle the       *)
(* upload resolved with, over a transport whose calls complete in any      *)
(* order and may fail.  Texts (file names, message ids, the manifest       *)
(* content) are sequences of one-character strings, so formatting and      *)
(* parsing are computed character by character as the code does.           *)
(*                                                                         *)
(* Spec is that upload and download; SpecFair is the same with the        *)
(* stream's events and the transport's answers arriving; SpecReupload      *)
(* starts from a webhook that holds an earlier upload; SpecStored is the   *)
(* download of a manifest message whose text was not written by this       *)
(* upload; SpecCodec is the manifest codec on its own and SpecIndex the    *)
(* index in a piece's display name on its own.                             *)
(***************************************************************************)
EXTENDS Integers, Sequences, FiniteSets, TLC

\* ------------------------------------------------------------------ bounds
\* Longest payload, in bytes.
MaxLen == 5
\* Number of DisFile instances constructed in one run.
MaxInstances == 2
\* Largest chunk size, below the default, given to a constructor.
MaxChunk == 3
\* Longest file name and longest id list given to the manifest codec.
MaxCodecName == 3
MaxCodecIds == 2

\* The step of the clock, in ms.
TickMs == 1000
\* Largest piece index whose display name is formed and parsed.
MaxIndex == 1100

\* ------------------------------------------------------------- text helpers
Digits == <<"0", "1", "2", "3", "4", "5", "6", "7", "8", "9">>

IsDigit(ch) == \E d \in 1..10 : Digits[d] = ch

DigitVal(ch) == (CHOOSE d \in 1..10 : Digits[d] = ch) - 1

IsWs(ch) == ch \in {" ", "\n", "\t", "\r"}

\* t[i], or a value that is no character when i is past the end.
At(t, i) == IF i >= 1 /\ i <= Len(t) THEN t[i] ELSE "EOF"

\* JavaScript String(i) for an integer i >= 0.
RECURSIVE ToText(_)
ToText(n) == IF n < 10 THEN <<Digits[n + 1]>>
             ELSE ToText(n \div 10) \o <<Digits[(n % 10) + 1]>>

\* String.prototype.padStart(len, ch).
RECURSIVE PadStart(_, _, _)
PadStart(t, len, ch) == IF Len(t) >= len THEN t ELSE PadStart(<<ch>> \o t, len, ch)

\* String.prototype.trim() of a text.
RECURSIVE TrimStart(_)
TrimStart(t) == IF t # <<>> /\ IsWs(Head(t)) THEN TrimStart(Tail(t)) ELSE t

RECURSIVE TrimEnd(_)
TrimEnd(t) == IF t # <<>> /\ IsWs(t[Len(t)]) THEN TrimEnd(SubSeq(t, 1, Len(t) - 1)) ELSE t

Trim(t) == TrimEnd(TrimStart(t))

\* t.split(sep)[0]: the text before the first sep (all of t when there is none).
RECURSIVE SplitFirst(_, _)
SplitFirst(t, sep) == IF t = <<>> \/ Head(t) = sep THEN <<>>
                      ELSE <<Head(t)>> \o SplitFirst(Tail(t), sep)

StartsWith(t, pat) == Len(t) >= Len(pat) /\ SubSeq(t, 1, Len(pat)) = pat

\* String.prototype.replaceAll(pat, rep): left to right, non-overlapping.
RECURSIVE ReplaceAll(_, _, _)
ReplaceAll(t, pat, rep) ==
    IF t = <<>> THEN <<>>
    ELSE IF StartsWith(t, pat)
         THEN rep \o ReplaceAll(SubSeq(t, Len(pat) + 1, Len(t)), pat, rep)
         ELSE <<Head(t)>> \o ReplaceAll(Tail(t), pat, rep)

\* parseInt(t, 10): leading white space, an optional sign, then digits; NaN when
\* no digit follows.
RECURSIVE ParseDigits(_, _)
ParseDigits(t, acc) == IF t # <<>> /\ IsDigit(Head(t))
                       THEN ParseDigits(Tail(t), acc * 10 + DigitVal(Head(t)))
                       ELSE acc

ParseInt(t) ==
    LET s == TrimStart(t)
        neg == s # <<>> /\ Head(s) = "-"
        u == IF s # <<>> /\ Head(s) \in {"-", "+"} THEN Tail(s) ELSE s
    IN IF u # <<>> /\ IsDigit(Head(u))
       THEN [nan |-> FALSE, val |-> IF neg THEN 0 - ParseDigits(u, 0) ELSE ParseDigits(u, 0)]
       ELSE [nan |-> TRUE, val |-> 0]

RECURSIVE Concat(_)
Concat(ss) == IF ss = <<>> THEN <<>> ELSE Head(ss) \o Concat(Tail(ss))

\* Buffer.prototype.slice(from, to) with 0 <= from <= to: bytes from..to-1,
\* cut at the end of the buffer.
Slice(buf, from, to) ==
    LET e == IF to > Len(buf) THEN Len(buf) ELSE to
    IN IF from >= e THEN <<>> ELSE SubSeq(buf, from + 1, e)

\* ---------------------------------------------------------- manifest codec
\* The grave accent U+0060, which a TLA+ string literal cannot hold: the one
\* character written as a two-letter atom.
Grave == "GA"

\* The code block marker, three grave accents.
Ticks == <<Grave, Grave, Grave>>

KeyFilename == <<"f", "i", "l", "e", "n", "a", "m", "e">>

KeyIds == <<"i", "d", "s">>

\* JSON.stringify of a string: quotes around it, '"' and '\' escaped.
RECURSIVE Escape(_)
Escape(s) == IF s = <<>> THEN <<>>
             ELSE (IF Head(s) \in {"\"", "\\"} THEN <<"\\", Head(s)>>
                   ELSE IF Head(s) = "\n" THEN <<"\\", "n">>
                   ELSE <<Head(s)>>) \o Escape(Tail(s))

Quote(s) == <<"\"">> \o Escape(s) \o <<"\"">>

\* The elements of a pretty-printed array, each on its own line at indent 4.
RECURSIVE StringifyElems(_)
StringifyElems(ids) ==
    IF ids = <<>> THEN <<>>
    ELSE <<"\n", " ", " ", " ", " ">> \o Quote(Head(ids))
         \o (IF Len(ids) > 1 THEN <<",">> ELSE <<>>) \o StringifyElems(Tail(ids))

StringifyArray(ids) ==
    IF ids = <<>> THEN <<"[", "]">>
    ELSE <<"[">> \o StringifyElems(ids) \o <<"\n", " ", " ", "]">>

\* JSON.stringify({filename: fileName, ids: ids}, null, 2).
Stringify(fileName, ids) ==
    <<"{", "\n", " ", " ">> \o Quote(KeyFilename) \o <<":", " ">> \o Quote(fileName)
    \o <<",", "\n", " ", " ">> \o Quote(KeyIds) \o <<":", " ">> \o StringifyArray(ids)
    \o <<"\n", "}">>

\* The content sendFilePrimaryID posts.
EncodeManifest(fileName, ids) == Ticks \o Stringify(fileName, ids) \o Ticks

\* JSON.parse, for the texts whose values are strings and arrays of strings (the
\* shape Stringify writes); any other text is reported as not parseable.
ParseFail == [ok |-> FALSE, val |-> <<>>, next |-> 0]

RECURSIVE SkipWs(_, _)
SkipWs(t, i) == IF IsWs(At(t, i)) THEN SkipWs(t, i + 1) ELSE i

\* The string whose opening quote is before position i.
RECURSIVE ScanString(_, _, _)
ScanString(t, i, acc) ==
    IF i > Len(t) \/ t[i] = "\n" THEN ParseFail
    ELSE IF t[i] = "\"" THEN [ok |-> TRUE, val |-> acc, next |-> i + 1]
    ELSE IF t[i] = "\\"
         THEN IF At(t, i + 1) \in {"\"", "\\", "/"}
              THEN ScanString(t, i + 2, Append(acc, t[i + 1]))
              ELSE IF At(t, i + 1) = "n" THEN ScanString(t, i + 2, Append(acc, "\n"))
              ELSE ParseFail
    ELSE ScanString(t, i + 1, Append(acc, t[i]))

ParseString(t, i) == IF At(t, i) = "\"" THEN ScanString(t, i + 1, <<>>) ELSE ParseFail

RECURSIVE ParseElems(_, _, _)
ParseElems(t, i, acc) ==
    LET r == ParseString(t, i)
        j == SkipWs(t, r.next)
    IN IF ~r.ok THEN ParseFail
       ELSE IF At(t, j) = "," THEN ParseElems(t, SkipWs(t, j + 1), Append(acc, r.val))
       ELSE IF At(t, j) = "]" THEN [ok |-> TRUE, val |-> Append(acc, r.val), next |-> j + 1]
       ELSE ParseFail

ParseArray(t, i) ==
    LET j == SkipWs(t, i + 1)
    IN IF At(t, j) = "]" THEN [ok |-> TRUE, val |-> <<>>, next |-> j + 1]
       ELSE ParseElems(t, j, <<>>)

\* A value: [ok, kind, val, next].
ParseValue(t, i) ==
    IF At(t, i) = "\"" THEN [kind |-> "string"] @@ ParseString(t, i)
    ELSE IF At(t, i) = "[" THEN [kind |-> "array"] @@ ParseArray(t, i)
    ELSE [kind |-> "none"] @@ ParseFail

\* The members of an object from position i (a key) on: a sequence of
\* [key, kind, val].
RECURSIVE ParseMembers(_, _, _)
ParseMembers(t, i, acc) ==
    LET k == ParseString(t, i)
        c == SkipWs(t, k.next)
        v == ParseValue(t, SkipWs(t, c + 1))
        j == SkipWs(t, v.next)
        m == Append(acc, [key |-> k.val, kind |-> v.kind, val |-> v.val])
    IN IF ~k.ok \/ At(t, c) # ":" \/ ~v.ok THEN ParseFail
       ELSE IF At(t, j) = "," THEN ParseMembers(t, SkipWs(t, j + 1), m)
       ELSE IF At(t, j) = "}" THEN [ok |-> TRUE, val |-> m, next |-> j + 1]
       ELSE ParseFail

JSONParse(t) ==
    LET i == SkipWs(t, 1)
        j == SkipWs(t, i + 1)
        r == IF At(t, i) # "{" THEN ParseFail
             ELSE IF At(t, j) = "}" THEN [ok |-> TRUE, val |-> <<>>, next |-> j + 1]
             ELSE ParseMembers(t, j, <<>>)
    IN IF r.ok /\ SkipWs(t, r.next) = Len(t) + 1
       THEN [ok |-> TRUE, members |-> r.val]
       ELSE [ok |-> FALSE, members |-> <<>>]

\* obj[key] of a parsed object: the last member of that name, or undefined.
Undefined == [kind |-> "undefined", val |-> <<>>]

Member(obj, key) ==
    LET hits == {n \in 1..Len(obj.members) : obj.members[n].key = key}
    IN IF hits = {} THEN Undefined
       ELSE LET n == CHOOSE x \in hits : \A y \in hits : y <= x
            IN [kind |-> obj.members[n].kind, val |-> obj.members[n].val]

\* download's decoding of the stored content: the markers removed, then parsed.
\* [ok, filename, ids], the two members as [kind, val].
DecodeManifest(content) ==
    LET json == ReplaceAll(content, Ticks, <<>>)
        parsed == JSONParse(json)
    IN [ok |-> parsed.ok,
        filename |-> IF parsed.ok THEN Member(parsed, KeyFilename) ELSE Undefined,
        ids |-> IF parsed.ok THEN Member(parsed, KeyIds) ELSE Undefined]

\* ------------------------------------------------------------------ chunker
\* var chunkSize = 20 * 1024 * 1024 in utils.
DefaultChunkSize == 20 * 1024 * 1024

\* DisFile binds chunkSize by destructuring require("../utils") when it is
\* loaded: the number utils exported then, which setChunkSize never changes.
ImportedChunkSize == DefaultChunkSize

\* The chunk sizes a caller gives the constructor (the default among them).
ChunkSizes == (2..MaxChunk) \cup {DefaultChunkSize}

\* One pass of createChunkedStream's loop: the slice pushed at offset.
ChunkAtOverlong(fileBuffer, offset, size) == Slice(fileBuffer, offset, offset + size + 1)

ChunkAt(fileBuffer, offset, size) == Slice(fileBuffer, offset, offset + size)

\* getChunks' 'data' handler: one chunk stream more, holding this chunk.
GetChunksOnData(chunkStreams, chunk) == Append(chunkStreams, chunk)

\* createChunkedStream's read() with getChunks listening: every slice pushed
\* while offset < fileBuffer.length arrives as one 'data' event.
RECURSIVE ReadLoop(_, _, _, _)
ReadLoop(fileBuffer, offset, size, chunkStreams) ==
    IF offset < Len(fileBuffer)
    THEN ReadLoop(fileBuffer, offset + size, size,
                  GetChunksOnData(chunkStreams, ChunkAt(fileBuffer, offset, size)))
    ELSE chunkStreams

\* fs.createReadStream(filePath, {highWaterMark}): the next read of the file.
FileRead(file, offset, highWaterMark) == Slice(file, offset, offset + highWaterMark)

\* ------------------------------------------------------------ piece names
\* `${String(i).padStart(3, '0')}_` + fileName, i counted from 0.
DisplayNameThreeDigits(i, name) == PadStart(ToText(i % 1000), 3, "0") \o <<"_">> \o name

DisplayName(i, name) == PadStart(ToText(i), 3, "0") \o <<"_">> \o name

\* !fileName || fileName.trim() === "".
IsBlankNameNever(name) == FALSE

IsBlankName(name) == name = <<>> \/ Trim(name) = <<>>

\* getAllFiles' comparator: numA - numB; a NaN difference counts as 0.
FileNumber(file) == ParseInt(SplitFirst(file.filename, "_"))

CompareReversed(a, b) == IF FileNumber(a).nan \/ FileNumber(b).nan THEN 0
                         ELSE FileNumber(b).val - FileNumber(a).val

Compare(a, b) == IF FileNumber(a).nan \/ FileNumber(b).nan THEN 0
                 ELSE FileNumber(a).val - FileNumber(b).val

\* Array.prototype.sort with that comparator: stable.
RECURSIVE InsertSorted(_, _)
InsertSorted(x, s) == IF s = <<>> THEN <<x>>
                      ELSE IF Compare(Head(s), x) <= 0 THEN <<Head(s)>> \o InsertSorted(x, Tail(s))
                      ELSE <<x>> \o s

RECURSIVE StableSort(_)
StableSort(s) == IF s = <<>> THEN <<>>
                 ELSE InsertSorted(s[Len(s)], StableSort(SubSeq(s, 1, Len(s) - 1)))

SortResultsUnsorted(results) == results

SortResults(results) == StableSort(results)

\* ---------------------------------------------------------------- transport
\* The id the webhook gives the k-th message it stores.
MessageId(k) == ToText(k)

NoMessage == [kind |-> "none", filename |-> <<>>, bytes |-> <<>>, content |-> <<>>]

\* GET {webhookURL}/messages/{id}.
MessageOf(messages, id) ==
    LET hits == {k \in 1..Len(messages) : MessageId(k) = id}
    IN IF hits = {} THEN NoMessage ELSE messages[CHOOSE k \in hits : TRUE]

PieceMessage(name, chunk) ==
    [kind |-> "piece", filename |-> name, bytes |-> chunk, content |-> <<>>]

ManifestMessage(text) ==
    [kind |-> "manifest", filename |-> <<>>, bytes |-> <<>>, content |-> text]

\* -------------------------------------------------------------------- state
VARIABLES
    payload,       \* the bytes to store (the file's content, or the buffer)
    fileName,      \* the fileName argument of the upload call
    srcKind,       \* "file" | "nofile" (uploadFile), "buffer" | "notstream" (uploadFileStream)
    chunkSize,     \* utils' module variable
    ctorArgs,      \* the chunk size given to each constructed DisFile, in order
    upPc,          \* "idle" | "reading" | "pieces" | "manifest" | "done"
    streamSt,      \* the source stream: "none" | "open" | "ended" | "errored"
    streamOff,     \* bytes of the file read so far
    highWaterMark, \* the read size uploadFile gave fs.createReadStream
    chunkStreams,  \* getChunks' array, one entry per 'data' event
    puts,          \* per piece: "inflight" | "ok" | "failed"
    fileIDs,       \* per piece: the id oneFile resolved with (<<>> before)
    ids,           \* upload's ids array
    manifestSt,    \* sendFilePrimaryID: "none" | "inflight" | "ok" | "failed"
    manifestBody,  \* the content posted
    upState,       \* the upload call's promise: "pending" | "resolved" | "rejected"
    upResult,      \* what it resolved with
    upReason,      \* what it rejected with
    upReasonArg,   \* the piece or stage that message names (<<>>: none)
    messages,      \* the webhook's stored messages, in the order stored
    netLog,        \* every transport call issued, in order
    dlPc,          \* "idle" | "manifest" | "lookups" | "fetching" | "done"
    chunkIDs,      \* parsed.ids
    lookups,       \* per chunk id: "inflight" | "ok" | "failed"
    results,       \* per chunk id: the {filename, url} the lookup gave
    files,         \* getAllFiles' sorted result
    fetchIdx,      \* mergeToBuffer's position in files
    fetchSt,       \* "none" | "request" | "streaming" | "pacing" | "failed"
    recv,          \* the chunks of the current response received so far
    timer,         \* ms left of mergeToBuffer's pause (0: not set)
    waited,        \* ms that passed since the last piece was complete
    buffers,       \* mergeToBuffer's buffers
    dlState,       \* the download call's promise
    dlResult,      \* the Buffer it resolved with
    dlReason,      \* what it rejected with
    dlReasonArg,   \* the piece or stage that message names (<<>>: none)
    codecPc,       \* the manifest codec on its own: "off" | "in" | "encoded" | "decoded"
    codecName,
    codecIds,
    codecText,
    codecOut,
    ixPc,          \* the index in the display name on its own: "off" | "in" | "named" | "parsed"
    ixIndex,       \* a piece's index i
    ixName,        \* the fileName
    ixDisplay,     \* the display name upload gives piece i
    ixParsed       \* the number getAllFiles reads from it

inputVars == <<payload, fileName, srcKind>>

cfgVars == <<chunkSize, ctorArgs>>

streamVars == <<streamSt, streamOff, highWaterMark, chunkStreams>>

upVars == <<upPc, puts, fileIDs, ids, manifestSt, manifestBody, upState, upResult, upReason,
            upReasonArg>>

netVars == <<messages, netLog>>

dlVars == <<dlPc, chunkIDs, lookups, results, files, fetchIdx, fetchSt, recv, timer,
            waited, buffers, dlState, dlResult, dlReason, dlReasonArg>>

codecVars == <<codecPc, codecName, codecIds, codecText, codecOut>>

indexVars == <<ixPc, ixIndex, ixName, ixDisplay, ixParsed>>

vars == <<inputVars, cfgVars, streamVars, upVars, netVars, dlVars, codecVars, indexVars>>

\* The payloads: the chunker and the merger never look at a byte's value, so
\* the bytes are all different and any loss, repeat or reordering shows.
Iota(n) == [i \in 1..n |-> i]

Payloads == {Iota(n) : n \in 0..MaxLen}

FileNames == {<<>>, <<" ">>, <<"a">>, <<"7", "_", "a">>}

SrcKinds == {"file", "nofile", "buffer", "notstream"}

NoResult == [primaryID |-> <<>>, fileName |-> <<>>, fileChunkIDs |-> <<>>]

NoFile == [filename |-> <<>>, url |-> <<>>]

IdleCalls ==
    /\ chunkSize = DefaultChunkSize
    /\ ctorArgs = <<>>
    /\ upPc = "idle"
    /\ streamSt = "none"
    /\ streamOff = 0
    /\ highWaterMark = 0
    /\ chunkStreams = <<>>
    /\ puts = <<>>
    /\ fileIDs = <<>>
    /\ ids = <<>>
    /\ manifestSt = "none"
    /\ manifestBody = <<>>
    /\ upState = "pending"
    /\ upResult = NoResult
    /\ upReason = ""
    /\ upReasonArg = <<>>
    /\ netLog = <<>>
    /\ dlPc = "idle"
    /\ chunkIDs = <<>>
    /\ lookups = <<>>
    /\ results = <<>>
    /\ files = <<>>
    /\ fetchIdx = 0
    /\ fetchSt = "none"
    /\ recv = <<>>
    /\ timer = 0
    /\ waited = 0
    /\ buffers = <<>>
    /\ dlState = "pending"
    /\ dlResult = <<>>
    /\ dlReason = ""
    /\ dlReasonArg = <<>>

IdleProgram ==
    /\ IdleCalls
    /\ messages = <<>>

CodecOff ==
    /\ codecPc = "off"
    /\ codecName = <<>>
    /\ codecIds = <<>>
    /\ codecText = <<>>
    /\ codecOut = [ok |-> FALSE, filename |-> Undefined, ids |-> Undefined]

IndexOff ==
    /\ ixPc = "off"
    /\ ixIndex = 0
    /\ ixName = <<>>
    /\ ixDisplay = <<>>
    /\ ixParsed = [nan |-> TRUE, val |-> 0]

Init ==
    /\ payload \in Payloads
    /\ fileName \in FileNames
    /\ srcKind \in SrcKinds
    /\ IdleProgram
    /\ CodecOff
    /\ IndexOff

\* ------------------------------------------------------------- constructor
\* new DisFile(webhookURL, c): setChunkSize(c) on the module variable.
NewDisFile(c) ==
    /\ Len(ctorArgs) < MaxInstances
    /\ chunkSize' = c
    /\ ctorArgs' = Append(ctorArgs, c)
    /\ UNCHANGED <<inputVars, streamVars, upVars, netVars, dlVars, codecVars, indexVars>>

\* ------------------------------------------------------------------ upload
RejectUpload(reason) ==
    /\ upPc' = "done"
    /\ upState' = "rejected"
    /\ upReason' = reason
    /\ upReasonArg' = <<>>
    /\ UNCHANGED <<puts, fileIDs, ids, manifestSt, manifestBody, upResult>>

\* uploadFile(filePath, fileName) on the first instance: the checks, then the
\* read stream and uploadFileStream, whose checkFileStream accepts it.
UploadFile ==
    /\ upPc = "idle"
    /\ ctorArgs # <<>>
    /\ srcKind \in {"file", "nofile"}
    /\ IF srcKind = "nofile"
       THEN RejectUpload("File doesn't exist.") /\ UNCHANGED streamVars
       ELSE IF IsBlankName(fileName)
       THEN RejectUpload("fileName cannot be empty.") /\ UNCHANGED streamVars
       ELSE /\ highWaterMark' = ImportedChunkSize
            /\ streamSt' = "open"
            /\ upPc' = "reading"
            /\ UNCHANGED <<streamOff, chunkStreams, puts, fileIDs, ids, manifestSt,
                           manifestBody, upState, upResult, upReason, upReasonArg>>
    /\ UNCHANGED <<inputVars, cfgVars, netVars, dlVars, codecVars, indexVars>>

\* checkFileStream(fileStream): the message for an object that is no Readable.
\* For a Readable it adds 'error', 'data' and 'end' listeners, whose return
\* values go nowhere, and returns null whatever the stream will emit.
Null == "null"

CheckFileStream(kind, content) ==
    IF kind \notin {"file", "buffer"} THEN "Invalid file stream" ELSE Null

\* uploadFileStream(fileStream, fileName) with createChunkedStream(payload), or
\* with an object that is no Readable: checkFileStream, then getChunks listens.
UploadFileStream ==
    /\ upPc = "idle"
    /\ ctorArgs # <<>>
    /\ srcKind \in {"buffer", "notstream"}
    /\ IF CheckFileStream(srcKind, payload) # Null
       THEN RejectUpload(CheckFileStream(srcKind, payload)) /\ UNCHANGED streamVars
       ELSE /\ streamSt' = "open"
            /\ upPc' = "reading"
            /\ UNCHANGED <<streamOff, highWaterMark, chunkStreams, puts, fileIDs, ids,
                           manifestSt, manifestBody, upState, upResult, upReason, upReasonArg>>
    /\ UNCHANGED <<inputVars, cfgVars, netVars, dlVars, codecVars, indexVars>>

\* The chunked stream starts to flow: read() pushes every slice, cut at the
\* chunkSize of that moment, and getChunks collects them.
BufferFlow ==
    /\ upPc = "reading"
    /\ srcKind = "buffer"
    /\ streamSt = "open"
    /\ streamOff = 0
    /\ chunkStreams = <<>>
    /\ chunkStreams' = ReadLoop(payload, 0, chunkSize, <<>>)
    /\ streamOff' = Len(payload)
    /\ streamSt' = "ended"
    /\ UNCHANGED <<inputVars, cfgVars, highWaterMark, upVars, netVars, dlVars, codecVars,
                   indexVars>>

\* One 'data' event of the file's read stream.
FileData ==
    /\ upPc = "reading"
    /\ srcKind = "file"
    /\ streamSt = "open"
    /\ streamOff < Len(payload)
    /\ LET chunk == FileRead(payload, streamOff, highWaterMark)
       IN /\ chunkStreams' = GetChunksOnData(chunkStreams, chunk)
          /\ streamOff' = streamOff + Len(chunk)
    /\ UNCHANGED <<inputVars, cfgVars, streamSt, highWaterMark, upVars, netVars, dlVars,
                   codecVars, indexVars>>

\* The file is read to its end.
FileEnd ==
    /\ upPc = "reading"
    /\ srcKind = "file"
    /\ streamSt = "open"
    /\ streamOff = Len(payload)
    /\ streamSt' = "ended"
    /\ UNCHANGED <<inputVars, cfgVars, streamOff, highWaterMark, chunkStreams, upVars,
                   netVars, dlVars, codecVars, indexVars>>

\* The read stream fails: getChunks rejects, uploadFileStream's catch rejects.
StreamError ==
    /\ upPc = "reading"
    /\ srcKind = "file"
    /\ streamSt = "open"
    /\ streamSt' = "errored"
    /\ RejectUpload("Unexpected error: read")
    /\ UNCHANGED <<inputVars, cfgVars, streamOff, highWaterMark, chunkStreams, netVars,
                   dlVars, codecVars, indexVars>>

\* await Promise.all(promises): fulfilled once every piece upload has; with
\* no promise at all it is fulfilled at once.
PromiseAllResolvedNeedsOne(statuses) ==
    statuses # <<>> /\ \A i \in DOMAIN statuses : statuses[i] = "ok"

PromiseAllResolvedAsSettled(statuses) == \A i \in DOMAIN statuses : statuses[i] # "inflight"

PromiseAllResolved(statuses) == \A i \in DOMAIN statuses : statuses[i] = "ok"

\* chunks.map(...): one oneFile request per chunk, each issued once.
PutCallsTwice(n) ==
    [i \in 1..(2 * n) |-> [op |-> "putPiece", arg |-> DisplayName((i - 1) % n, fileName)]]

PutCalls(n) == [i \in 1..n |-> [op |-> "putPiece", arg |-> DisplayName(i - 1, fileName)]]

\* The 'end' event: getChunks resolves, uploadFileStream checks the name and
\* calls upload, which posts every piece at once (and, with no piece to wait
\* for, the manifest).
StreamEnd ==
    /\ upPc = "reading"
    /\ streamSt = "ended"
    /\ IF IsBlankName(fileName)
       THEN RejectUpload("fileName cannot be empty.") /\ UNCHANGED netLog
       ELSE LET n == Len(chunkStreams)
            IN /\ puts' = [i \in 1..n |-> "inflight"]
               /\ fileIDs' = [i \in 1..n |-> <<>>]
               /\ IF PromiseAllResolved([i \in 1..n |-> "inflight"])
                  THEN /\ upPc' = "manifest"
                       /\ manifestSt' = "inflight"
                       /\ manifestBody' = EncodeManifest(fileName, ids)
                       /\ netLog' = Append(netLog, [op |-> "putManifest", arg |-> fileName])
                  ELSE /\ upPc' = "pieces"
                       /\ netLog' = netLog \o PutCalls(n)
                       /\ UNCHANGED <<manifestSt, manifestBody>>
               /\ UNCHANGED <<ids, upState, upResult, upReason, upReasonArg>>
    /\ UNCHANGED <<inputVars, cfgVars, streamVars, messages, dlVars, codecVars, indexVars>>

\* upload's promise after a piece upload rejected: Promise.all rejects with the
\* first rejection, whatever is still in flight, and the catch rejects.
SettleOnRejectionWhenAllDone(state, statuses) ==
    IF state = "pending" /\ \A i \in DOMAIN statuses : statuses[i] # "inflight"
    THEN "rejected" ELSE state

SettleOnRejectionNever(state, statuses) == state

SettleOnRejection(state, statuses) == IF state = "pending" THEN "rejected" ELSE state

\* ids.push(fileID)
PushIdOverwrites(idList, fileID) == <<fileID>>

PushId(idList, fileID) == Append(idList, fileID)

\* axios.post(webhookURL + "?wait=true", ...): the webhook stores a new message
\* after the ones it has.
PostEditsLast(store, msg) ==
    IF store = <<>> THEN <<msg>> ELSE [store EXCEPT ![Len(store)] = msg]

Post(store, msg) == Append(store, msg)

\* oneFile resolves for piece i (the i-th chunk stream, index i - 1): the
\* webhook stored it; its id is pushed onto ids; the last of them posts the
\* manifest.
PutPieceOk(i) ==
    /\ i \in DOMAIN puts
    /\ puts[i] = "inflight"
    /\ LET id == MessageId(Len(messages) + 1)
       IN /\ messages' = Post(messages, PieceMessage(DisplayName(i - 1, fileName),
                                                     chunkStreams[i]))
          /\ fileIDs' = [fileIDs EXCEPT ![i] = id]
          /\ ids' = PushId(ids, id)
    /\ puts' = [puts EXCEPT ![i] = "ok"]
    /\ IF PromiseAllResolved(puts')
       THEN /\ upPc' = "manifest"
            /\ manifestSt' = "inflight"
            /\ manifestBody' = EncodeManifest(fileName, ids')
            /\ netLog' = Append(netLog, [op |-> "putManifest", arg |-> fileName])
       ELSE UNCHANGED <<upPc, manifestSt, manifestBody, netLog>>
    /\ UNCHANGED <<inputVars, cfgVars, streamVars, upState, upResult, upReason, upReasonArg, dlVars,
                   codecVars, indexVars>>

\* "Upload failed: " + err.message for a failed piece: the request's message,
\* with neither the piece's index nor its name in it.
UploadFailedNames(index, name) == <<>>

\* upload's catch: reject(err.message) and nothing else; what the webhook has
\* stored stays as it is.
UploadCatchDeletes(store) == <<>>

UploadCatch(store) == store

\* oneFile rejects for piece i.
PutPieceFail(i) ==
    /\ i \in DOMAIN puts
    /\ puts[i] = "inflight"
    /\ puts' = [puts EXCEPT ![i] = "failed"]
    /\ upState' = SettleOnRejection(upState, puts')
    /\ IF upState = "pending" /\ upState' = "rejected"
       THEN /\ upPc' = "done"
            /\ upReason' = "Upload failed: request"
            /\ upReasonArg' = UploadFailedNames(i - 1, DisplayName(i - 1, fileName))
       ELSE UNCHANGED <<upPc, upReason, upReasonArg>>
    /\ messages' = UploadCatch(messages)
    /\ UNCHANGED <<inputVars, cfgVars, streamVars, fileIDs, ids, manifestSt, manifestBody,
                   upResult, netLog, dlVars, codecVars, indexVars>>

\* sendFilePrimaryID resolves: the manifest is stored and upload resolves.
ManifestOk ==
    /\ manifestSt = "inflight"
    /\ manifestSt' = "ok"
    /\ messages' = Post(messages, ManifestMessage(manifestBody))
    /\ upPc' = "done"
    /\ upState' = "resolved"
    /\ upResult' = [primaryID |-> MessageId(Len(messages) + 1), fileName |-> fileName,
                    fileChunkIDs |-> ids]
    /\ UNCHANGED <<inputVars, cfgVars, streamVars, puts, fileIDs, ids, manifestBody,
                   upReason, upReasonArg, netLog, dlVars, codecVars, indexVars>>

\* sendFilePrimaryID rejects.
ManifestFail ==
    /\ manifestSt = "inflight"
    /\ manifestSt' = "failed"
    /\ upPc' = "done"
    /\ upState' = "rejected"
    /\ upReason' = "Upload failed: request"
    /\ upReasonArg' = <<>>
    /\ UNCHANGED <<inputVars, cfgVars, streamVars, puts, fileIDs, ids, manifestBody,
                   upResult, netVars, dlVars, codecVars, indexVars>>

\* ---------------------------------------------------------------- download
\* What a rejection of the download names, kept with the first rejection.
DownloadNames(arg) == dlReasonArg' = IF dlState = "pending" THEN arg ELSE dlReasonArg

RejectDownload(reason) ==
    /\ dlPc' = "done"
    /\ dlState' = IF dlState = "pending" THEN "rejected" ELSE dlState
    /\ dlReason' = IF dlState = "pending" THEN reason ELSE dlReason

GetCalls(cids) == [i \in 1..Len(cids) |-> [op |-> "getMessage", arg |-> cids[i]]]

\* download(webhookURL, upResult.primaryID): the GET of the manifest message.
Download ==
    /\ dlPc = "idle"
    /\ upState = "resolved"
    /\ dlPc' = "manifest"
    /\ netLog' = Append(netLog, [op |-> "getManifest", arg |-> upResult.primaryID])
    /\ UNCHANGED <<inputVars, cfgVars, streamVars, upVars, messages, chunkIDs, lookups,
                   results, files, fetchIdx, fetchSt, recv, timer, waited, buffers,
                   dlState, dlResult, dlReason, dlReasonArg, codecVars, indexVars>>

\* The manifest message arrives: decode it, then getAllFiles asks for every
\* chunk message at once.  With no chunk id, Promise.all([]) and mergeToBuffer([])
\* resolve in the same turn and download resolves with the empty Buffer.
GetManifestOk ==
    /\ dlPc = "manifest"
    /\ MessageOf(messages, upResult.primaryID).kind # "none"
    /\ \E d \in {DecodeManifest(MessageOf(messages, upResult.primaryID).content)} :
          IF ~d.ok \/ d.ids.kind # "array"
          THEN /\ RejectDownload(IF d.ok THEN "TypeError" ELSE "SyntaxError")
               /\ DownloadNames(<<>>)
               /\ UNCHANGED <<chunkIDs, lookups, results, dlResult, netLog>>
          ELSE /\ chunkIDs' = d.ids.val
               /\ lookups' = [i \in 1..Len(d.ids.val) |-> "inflight"]
               /\ results' = [i \in 1..Len(d.ids.val) |-> NoFile]
               /\ netLog' = netLog \o GetCalls(d.ids.val)
               /\ IF d.ids.val = <<>>
                  THEN dlPc' = "done" /\ dlState' = "resolved" /\ dlResult' = Concat(<<>>)
                  ELSE dlPc' = "lookups" /\ UNCHANGED <<dlState, dlResult>>
               /\ UNCHANGED <<dlReason, dlReasonArg>>
    /\ UNCHANGED <<inputVars, cfgVars, streamVars, upVars, messages, files, fetchIdx,
                   fetchSt, recv, timer, waited, buffers, codecVars, indexVars>>

\* The GET of the manifest message fails.
GetManifestFail ==
    /\ dlPc = "manifest"
    /\ RejectDownload("request")
    /\ DownloadNames(<<>>)
    /\ UNCHANGED <<inputVars, cfgVars, streamVars, upVars, netVars, chunkIDs, lookups,
                   results, files, fetchIdx, fetchSt, recv, timer, waited, buffers,
                   dlResult, codecVars, indexVars>>

\* Promise.all(chunkDownloadPromises): fulfilled once every lookup has.
PromiseAllLookupsAsAny(statuses) == \E i \in DOMAIN statuses : statuses[i] = "ok"

PromiseAllLookups(statuses) == \A i \in DOMAIN statuses : statuses[i] = "ok"

\* The lookup of chunk id i answers with the message's first attachment.  The
\* last answer lets Promise.all resolve: the results, in chunkIDs order, are
\* sorted and mergeToBuffer asks for the first piece.
LookupOk(i) ==
    /\ i \in DOMAIN lookups
    /\ lookups[i] = "inflight"
    /\ MessageOf(messages, chunkIDs[i]).kind = "piece"
    /\ lookups' = [lookups EXCEPT ![i] = "ok"]
    /\ results' = [results EXCEPT ![i] = [filename |-> MessageOf(messages, chunkIDs[i]).filename,
                                          url |-> chunkIDs[i]]]
    /\ IF PromiseAllLookups(lookups')
       THEN /\ files' = SortResults(results')
            /\ dlPc' = "fetching"
            /\ fetchIdx' = 1
            /\ fetchSt' = "request"
            /\ netLog' = Append(netLog, [op |-> "getPiece", arg |-> SortResults(results')[1].url])
       ELSE UNCHANGED <<files, dlPc, fetchIdx, fetchSt, netLog>>
    /\ UNCHANGED <<inputVars, cfgVars, streamVars, upVars, messages, chunkIDs, recv, timer,
                   waited, buffers, dlState, dlResult, dlReason, dlReasonArg, codecVars, indexVars>>

\* The lookup of chunk id i fails (or names no attachment): Promise.all rejects.
LookupFail(i) ==
    /\ i \in DOMAIN lookups
    /\ lookups[i] = "inflight"
    /\ lookups' = [lookups EXCEPT ![i] = "failed"]
    /\ RejectDownload("Error downloading chunk")
    /\ DownloadNames(chunkIDs[i])
    /\ UNCHANGED <<inputVars, cfgVars, streamVars, upVars, netVars, chunkIDs, results, files,
                   fetchIdx, fetchSt, recv, timer, waited, buffers, dlResult, codecVars, indexVars>>

PieceBytes(file) == MessageOf(messages, file.url).bytes

\* axios.get(file.url) resolves with the response stream.
FetchResponse ==
    /\ dlPc = "fetching"
    /\ fetchSt = "request"
    /\ fetchSt' = "streaming"
    /\ recv' = <<>>
    /\ UNCHANGED <<inputVars, cfgVars, streamVars, upVars, netVars, dlPc, chunkIDs, lookups,
                   results, files, fetchIdx, timer, waited, buffers, dlState, dlResult,
                   dlReason, dlReasonArg, codecVars, indexVars>>

\* One 'data' event of the response: the next k bytes of the piece.
FetchData ==
    /\ dlPc = "fetching"
    /\ fetchSt = "streaming"
    /\ LET got == Len(Concat(recv))
           all == PieceBytes(files[fetchIdx])
       IN \E k \in 1..(Len(all) - got) :
            recv' = Append(recv, SubSeq(all, got + 1, got + k))
    /\ UNCHANGED <<inputVars, cfgVars, streamVars, upVars, netVars, dlPc, chunkIDs, lookups,
                   results, files, fetchIdx, fetchSt, timer, waited, buffers, dlState,
                   dlResult, dlReason, dlReasonArg, codecVars, indexVars>>

\* setTimeout(resolve, 3000) after the file of index idx of n: the same pause
\* after every file, the last one too.
PacingDelayMs == 3000

PauseAfterFetchNone(idx, n) == 0

PauseAfterFetch(idx, n) == PacingDelayMs

\* The response's 'end': the piece is pushed onto buffers and the pause starts.
FetchEnd ==
    /\ dlPc = "fetching"
    /\ fetchSt = "streaming"
    /\ Len(Concat(recv)) = Len(PieceBytes(files[fetchIdx]))
    /\ buffers' = Append(buffers, Concat(recv))
    /\ fetchSt' = "pacing"
    /\ timer' = PauseAfterFetch(fetchIdx, Len(files))
    /\ waited' = 0
    /\ UNCHANGED <<inputVars, cfgVars, streamVars, upVars, netVars, dlPc, chunkIDs, lookups,
                   results, files, fetchIdx, recv, dlState, dlResult, dlReason, dlReasonArg,
                   codecVars, indexVars>>

\* mergeToBuffer's catch: reject and return, so that no later file is asked
\* for.  The index of the file asked for next; 0 for none.
NextAfterErrorContinues(idx, n) == IF idx < n THEN idx + 1 ELSE 0

NextAfterError(idx, n) == 0

\* res.data.on('error', reject): the chunks received of the file are dropped,
\* buffers keeps the files that ended.
OnResponseErrorPushes(bufs, chunks) == Append(bufs, Concat(chunks))

OnResponseError(bufs, chunks) == bufs

\* The request fails, or the response stream errors part way.
FetchError ==
    /\ dlPc \in {"fetching", "done"}
    /\ fetchSt \in {"request", "streaming"}
    /\ RejectDownload("Error downloading file")
    /\ DownloadNames(files[fetchIdx].filename)
    /\ LET next == NextAfterError(fetchIdx, Len(files))
       IN IF next = 0
          THEN fetchSt' = "failed" /\ UNCHANGED <<fetchIdx, netLog>>
          ELSE /\ fetchSt' = "request"
               /\ fetchIdx' = next
               /\ netLog' = Append(netLog, [op |-> "getPiece", arg |-> files[next].url])
    /\ buffers' = OnResponseError(buffers, recv)
    /\ UNCHANGED <<inputVars, cfgVars, streamVars, upVars, messages, chunkIDs, lookups,
                   results, files, recv, timer, waited, dlResult, codecVars, indexVars>>

\* Time passes while the pause's timer runs, TickMs at a time.
Tick ==
    /\ dlPc = "fetching"
    /\ fetchSt = "pacing"
    /\ timer > 0
    /\ LET dt == IF timer < TickMs THEN timer ELSE TickMs
       IN timer' = timer - dt /\ waited' = waited + dt
    /\ UNCHANGED <<inputVars, cfgVars, streamVars, upVars, netVars, dlPc, chunkIDs, lookups,
                   results, files, fetchIdx, fetchSt, recv, buffers, dlState, dlResult,
                   dlReason, dlReasonArg, codecVars, indexVars>>

\* The timer fires: the next file, or resolve(Buffer.concat(buffers)).
PacingDone ==
    /\ dlPc = "fetching"
    /\ fetchSt = "pacing"
    /\ timer = 0
    /\ waited' = 0
    /\ IF fetchIdx < Len(files)
       THEN /\ fetchIdx' = fetchIdx + 1
            /\ fetchSt' = "request"
            /\ netLog' = Append(netLog, [op |-> "getPiece", arg |-> files[fetchIdx + 1].url])
            /\ UNCHANGED <<dlPc, dlState, dlResult>>
       ELSE /\ dlPc' = "done"
            /\ fetchSt' = "none"
            /\ dlState' = "resolved"
            /\ dlResult' = Concat(buffers)
            /\ UNCHANGED <<fetchIdx, netLog>>
    /\ UNCHANGED <<inputVars, cfgVars, streamVars, upVars, messages, chunkIDs, lookups,
                   results, files, recv, timer, buffers, dlReason, dlReasonArg, codecVars,
                   indexVars>>

\* ------------------------------------------------------------ specification
Next ==
    \/ \E c \in ChunkSizes : NewDisFile(c)
    \/ UploadFile
    \/ UploadFileStream
    \/ BufferFlow
    \/ FileData
    \/ FileEnd
    \/ StreamError
    \/ StreamEnd
    \/ \E i \in 1..MaxLen : PutPieceOk(i)
    \/ \E i \in 1..MaxLen : PutPieceFail(i)
    \/ ManifestOk
    \/ ManifestFail
    \/ Download
    \/ GetManifestOk
    \/ GetManifestFail
    \/ \E i \in 1..MaxLen : LookupOk(i)
    \/ \E i \in 1..MaxLen : LookupFail(i)
    \/ FetchResponse
    \/ FetchData
    \/ FetchEnd
    \/ FetchError
    \/ Tick
    \/ PacingDone

Spec == Init /\ [][Next]_vars

\* A step of the upload call: the stream's events and the transport's answers.
UploadStep ==
    \/ BufferFlow
    \/ FileData
    \/ FileEnd
    \/ StreamError
    \/ StreamEnd
    \/ \E i \in 1..MaxLen : PutPieceOk(i)
    \/ \E i \in 1..MaxLen : PutPieceFail(i)
    \/ ManifestOk
    \/ ManifestFail

\* A step of the download call: the transport's answers and the timer.
DownloadStep ==
    \/ GetManifestFail
    \/ GetManifestOk
    \/ \E i \in 1..MaxLen : LookupFail(i)
    \/ \E i \in 1..MaxLen : LookupOk(i)
    \/ FetchResponse
    \/ FetchData
    \/ FetchEnd
    \/ FetchError
    \/ Tick
    \/ PacingDone

\* The stream goes on to its end or to an error, every request is answered
\* with success or failure, and time passes: no call is left waiting for an
\* event that is due.
\* One blank and one good file name: a call's progress does not depend on
\* the name otherwise.
InitFair == Init /\ fileName \in {<<" ">>, <<"a">>}

SpecFair == InitFair /\ [][Next]_vars /\ WF_vars(UploadStep) /\ WF_vars(DownloadStep)

\* ------------------------------------------- the manifest codec on its own
\* Names and ids the codec is given: letters, quotes and grave accents.
CodecChars == {"a", "\"", Grave}

RECURSIVE TextsUpTo(_, _)
TextsUpTo(chars, n) ==
    IF n = 0 THEN {<<>>}
    ELSE LET shorter == TextsUpTo(chars, n - 1)
         IN shorter \cup {Append(t, ch) : t \in shorter, ch \in chars}

CodecNames == TextsUpTo(CodecChars, MaxCodecName) \ {<<>>}

CodecIdSet == {<<"1">>, <<"2", "3">>}

RECURSIVE ListsUpTo(_, _)
ListsUpTo(elems, n) ==
    IF n = 0 THEN {<<>>}
    ELSE LET shorter == ListsUpTo(elems, n - 1)
         IN shorter \cup {Append(l, e) : l \in shorter, e \in elems}

InitCodec ==
    /\ payload = <<>>
    /\ fileName = <<>>
    /\ srcKind = "buffer"
    /\ IdleProgram
    /\ codecPc = "in"
    /\ codecName \in CodecNames
    /\ codecIds \in ListsUpTo(CodecIdSet, MaxCodecIds)
    /\ codecText = <<>>
    /\ codecOut = [ok |-> FALSE, filename |-> Undefined, ids |-> Undefined]
    /\ IndexOff

\* sendFilePrimaryID's content for {filename: codecName, ids: codecIds}.
CodecEncode ==
    /\ codecPc = "in"
    /\ codecText' = EncodeManifest(codecName, codecIds)
    /\ codecPc' = "encoded"
    /\ UNCHANGED <<inputVars, cfgVars, streamVars, upVars, netVars, dlVars, codecName,
                   codecIds, codecOut, indexVars>>

\* download's decoding of that content.
CodecDecode ==
    /\ codecPc = "encoded"
    /\ codecOut' = DecodeManifest(codecText)
    /\ codecPc' = "decoded"
    /\ UNCHANGED <<inputVars, cfgVars, streamVars, upVars, netVars, dlVars, codecName,
                   codecIds, codecText, indexVars>>

NextCodec == CodecEncode \/ CodecDecode

SpecCodec == InitCodec /\ [][NextCodec]_vars

\* ------------------------------------- the index in the display name alone
\* File names a piece's index is put in front of: with '_', with leading
\* digits, with white space.
IndexNames == {<<"a">>, <<"7", "_", "a">>, <<"_">>, <<"1", "2">>, <<" ", "1">>}

InitIndex ==
    /\ payload = <<>>
    /\ fileName = <<>>
    /\ srcKind = "buffer"
    /\ IdleProgram
    /\ CodecOff
    /\ ixPc = "in"
    /\ ixIndex \in 0..MaxIndex
    /\ ixName \in IndexNames
    /\ ixDisplay = <<>>
    /\ ixParsed = [nan |-> TRUE, val |-> 0]

\* upload's name for the piece of index ixIndex.
IndexName ==
    /\ ixPc = "in"
    /\ ixDisplay' = DisplayName(ixIndex, ixName)
    /\ ixPc' = "named"
    /\ UNCHANGED <<inputVars, cfgVars, streamVars, upVars, netVars, dlVars, codecVars,
                   ixIndex, ixName, ixParsed>>

\* getAllFiles' number for an attachment of that name.
IndexParse ==
    /\ ixPc = "named"
    /\ ixParsed' = FileNumber([filename |-> ixDisplay, url |-> <<>>])
    /\ ixPc' = "parsed"
    /\ UNCHANGED <<inputVars, cfgVars, streamVars, upVars, netVars, dlVars, codecVars,
                   ixIndex, ixName, ixDisplay>>

NextIndex == IndexName \/ IndexParse

SpecIndex == InitIndex /\ [][NextIndex]_vars

\* ------------------------------------------- download of a stored manifest
\* The manifest message is text in the webhook's channel; download decodes
\* whatever text the message of the given id holds.  Here two pieces of a
\* three-byte upload are stored and the manifest message holds one of these
\* texts: the uploaded one, the same without one or both fences, and texts
\* whose inside is no JSON or has no ids.
StoredName == <<"a">>

StoredIds == <<MessageId(1), MessageId(2)>>

StoredTexts ==
    { EncodeManifest(StoredName, StoredIds),
      EncodeManifest(StoredName, <<MessageId(2), MessageId(1)>>),
      Stringify(StoredName, StoredIds),
      Ticks \o Stringify(StoredName, StoredIds),
      Stringify(StoredName, StoredIds) \o Ticks,
      Ticks \o <<"{", "}">> \o Ticks,
      Ticks \o <<"{">> \o Ticks,
      Ticks \o Ticks,
      <<"a">>,
      <<>> }

InitStored ==
    /\ payload = Iota(3)
    /\ fileName = StoredName
    /\ srcKind = "buffer"
    /\ chunkSize = 2
    /\ ctorArgs = <<2>>
    /\ upPc = "done"
    /\ streamSt = "ended"
    /\ streamOff = 3
    /\ highWaterMark = 0
    /\ chunkStreams = <<<<1, 2>>, <<3>>>>
    /\ puts = <<"ok", "ok">>
    /\ fileIDs = StoredIds
    /\ ids = StoredIds
    /\ manifestSt = "ok"
    /\ manifestBody = EncodeManifest(StoredName, StoredIds)
    /\ upState = "resolved"
    /\ upResult = [primaryID |-> MessageId(3), fileName |-> StoredName,
                   fileChunkIDs |-> StoredIds]
    /\ upReason = ""
    /\ upReasonArg = <<>>
    /\ \E text \in StoredTexts :
          messages = <<PieceMessage(DisplayName(0, StoredName), <<1, 2>>),
                       PieceMessage(DisplayName(1, StoredName), <<3>>),
                       ManifestMessage(text)>>
    /\ netLog = PutCalls(2) \o <<[op |-> "putManifest", arg |-> StoredName]>>
    /\ dlPc = "idle"
    /\ chunkIDs = <<>>
    /\ lookups = <<>>
    /\ results = <<>>
    /\ files = <<>>
    /\ fetchIdx = 0
    /\ fetchSt = "none"
    /\ recv = <<>>
    /\ timer = 0
    /\ waited = 0
    /\ buffers = <<>>
    /\ dlState = "pending"
    /\ dlResult = <<>>
    /\ dlReason = ""
    /\ dlReasonArg = <<>>
    /\ CodecOff
    /\ IndexOff

NextStored ==
    \/ Download
    \/ GetManifestOk
    \/ GetManifestFail
    \/ \E i \in 1..MaxLen : LookupOk(i)
    \/ \E i \in 1..MaxLen : LookupFail(i)
    \/ FetchResponse
    \/ FetchData
    \/ FetchEnd
    \/ FetchError
    \/ Tick
    \/ PacingDone

SpecStored == InitStored /\ [][NextStored]_vars

\* ------------------------------------------- an upload onto a used webhook
\* What an earlier upload of three bytes named "a" left with the webhook.
EarlierStore ==
    <<PieceMessage(DisplayName(0, StoredName), <<1, 2>>),
      PieceMessage(DisplayName(1, StoredName), <<3>>),
      ManifestMessage(EncodeManifest(StoredName, StoredIds))>>

\* A new process uploads under the same name, then downloads what it uploaded.
InitReupload ==
    /\ payload \in Payloads
    /\ fileName = StoredName
    /\ srcKind \in {"file", "buffer"}
    /\ IdleCalls
    /\ messages = EarlierStore
    /\ CodecOff
    /\ IndexOff

SpecReupload == InitReupload /\ [][Next]_vars

\* ------------------------------------------------------------------- claims
\* A transport call of the download failed: the manifest GET, a lookup or a
\* piece fetch.
DownloadCallFailed ==
    \/ dlReason \in {"request", "Error downloading file"}
    \/ \E i \in DOMAIN lookups : lookups[i] = "failed"
    \/ fetchSt = "failed"

\* C1: round trip.  Whenever the download of an upload's primary id resolves,
\* its bytes are the payload; and it rejects only when one of its transport
\* calls failed, whatever the order the piece uploads and lookups completed in.
C1_RoundTrip ==
    /\ dlState = "resolved" => dlResult = payload
    /\ dlState = "rejected" => DownloadCallFailed

\* A three-piece payload whose ids were pushed out of index order came back.
C1_Witness ==
    /\ dlState = "resolved"
    /\ Len(payload) = MaxLen
    /\ Len(chunkStreams) = 3
    /\ ids # fileIDs
    /\ dlResult = payload

\* C2: when upload resolves, ids[i] (in the manifest and in fileChunkIDs) is
\* the id the transport returned for the piece of index i, whatever the order
\* the piece uploads completed in.
C2_IdsByIndex ==
    upState = "resolved" =>
        /\ upResult.fileChunkIDs = fileIDs
        /\ DecodeManifest(MessageOf(messages, upResult.primaryID).content).ids.val = fileIDs

\* The integer before the first '_' of a stored piece's display name.
LeadingInt(id) == ParseDigits(SplitFirst(MessageOf(messages, id).filename, "_"), 0)

OrdersOf(n) == {p \in [1..n -> 1..n] : \A i, j \in 1..n : p[i] = p[j] => i = j}

\* C3: the bytes download resolves with are the pieces the manifest lists,
\* concatenated in ascending order of the integer before the first '_' of
\* their display names, for every order of the ids in the manifest.
C3_SortedByName ==
    dlState = "resolved" =>
        \E p \in OrdersOf(Len(chunkIDs)) :
            /\ \A i, j \in 1..Len(chunkIDs) :
                   i < j => LeadingInt(chunkIDs[p[i]]) < LeadingInt(chunkIDs[p[j]])
            /\ dlResult = Concat([i \in 1..Len(chunkIDs) |->
                                     MessageOf(messages, chunkIDs[p[i]]).bytes])

\* Resolved from a manifest that lists three pieces last index first.
C3_Witness ==
    /\ dlState = "resolved"
    /\ Len(chunkIDs) = 3
    /\ LeadingInt(chunkIDs[1]) = 2
    /\ LeadingInt(chunkIDs[3]) = 0

\* C4: fail fast on a failed piece upload.  In every state in which a piece
\* upload has failed, upload has rejected (it does not wait for the uploads
\* still in flight) and it never resolves.
C4_UploadFailFast ==
    (\E i \in DOMAIN puts : puts[i] = "failed") => upState = "rejected"

\* Rejected while another piece upload is still in flight.
C4_Witness ==
    /\ upState = "rejected"
    /\ \E i \in DOMAIN puts : puts[i] = "failed"
    /\ \E i \in DOMAIN puts : puts[i] = "inflight"

\* A lookup or a byte fetch of a piece failed.
PieceFetchFailed ==
    \/ \E i \in DOMAIN lookups : lookups[i] = "failed"
    \/ fetchSt = "failed"
    \/ dlReason = "Error downloading file"

GetPieceCalls == {n \in DOMAIN netLog : netLog[n].op = "getPiece"}

\* C5: fail fast on a failed piece of a download.  Once a lookup or a byte
\* fetch has failed the download has rejected (it never resolves), and no step
\* that ends in such a state issues a byte fetch.
C5_DownloadFailFast ==
    /\ [](PieceFetchFailed => dlState = "rejected")
    /\ [][PieceFetchFailed' => GetPieceCalls' = GetPieceCalls]_vars

\* The second of three pieces failed after the first was received.
C5_Witness ==
    /\ fetchSt = "failed"
    /\ fetchIdx = 2
    /\ Len(files) = 3
    /\ Len(buffers) = 1
    /\ dlState = "rejected"

\* The name is empty or white space only, or the source is no readable stream.
InvalidUploadInput ==
    \/ \A i \in DOMAIN fileName : fileName[i] = " "
    \/ srcKind = "notstream"

\* C6: validation precedes the network.  With a blank fileName or a source
\* that is no readable stream, no transport call is ever issued and the upload
\* call ends rejected.
C6_ValidationBeforeNetwork ==
    InvalidUploadInput =>
        /\ netLog = <<>>
        /\ messages = <<>>
        /\ upState # "resolved"
        /\ upPc = "done" => upState = "rejected"

\* A blank name rejected after the whole stream was read into chunks.
C6_Witness ==
    /\ fileName = <<" ">>
    /\ srcKind = "buffer"
    /\ Len(chunkStreams) = 3
    /\ upState = "rejected"
    /\ netLog = <<>>

\* C7: manifest round trip.  Decoding the encoded {fileName, ids} gives back
\* the same fileName and the same ids in the same order, for every non-empty
\* fileName and every list of id strings.
C7_ManifestRoundTrip ==
    codecPc = "decoded" =>
        /\ codecOut.ok
        /\ codecOut.filename = [kind |-> "string", val |-> codecName]
        /\ codecOut.ids = [kind |-> "array", val |-> codecIds]

CeilDiv(s, c) == (s + c - 1) \div c

\* C8: chunk-count law.  With one DisFile constructed with chunk size C, the
\* number of pieces made of a payload of S bytes is ceil(S / C) (0 for S = 0),
\* and that many piece uploads are issued.
C8_ChunkCountLaw ==
    (Len(ctorArgs) = 1 /\ streamSt = "ended") =>
        /\ Len(chunkStreams) = CeilDiv(Len(payload), ctorArgs[1])
        /\ upPc \in {"pieces", "manifest"} => Len(puts) = CeilDiv(Len(payload), ctorArgs[1])

\* C9: chunker coverage.  The pieces createChunkedStream makes of a buffer are
\* each non-empty and at most chunkSize bytes, and concatenated in index order
\* they are the buffer.
C9_ChunkerCoverage ==
    [][(srcKind = "buffer" /\ streamSt = "open" /\ streamSt' = "ended") =>
          /\ \A i \in DOMAIN chunkStreams' :
                 Len(chunkStreams'[i]) >= 1 /\ Len(chunkStreams'[i]) <= chunkSize
          /\ Concat(chunkStreams') = payload]_vars

\* Five bytes at chunk size 2: pieces of 2, 2 and 1 bytes.
C9_Witness ==
    /\ srcKind = "buffer"
    /\ streamSt = "ended"
    /\ chunkSize = 2
    /\ Len(payload) = 5
    /\ [i \in DOMAIN chunkStreams |-> Len(chunkStreams[i])] = <<2, 2, 1>>

\* C10: after new DisFile(url, c), every piece uploadFile and
\* createChunkedStream produce has at most c bytes, and a payload of more than
\* c bytes is split into more than one piece.
C10_ConstructorChunkSize ==
    (Len(ctorArgs) = 1 /\ streamSt = "ended") =>
        /\ \A i \in DOMAIN chunkStreams : Len(chunkStreams[i]) <= ctorArgs[1]
        /\ Len(payload) > ctorArgs[1] => Len(chunkStreams) > 1

\* C11: invocations are independent.  The pieces an upload through the first
\* DisFile produces are those its own chunk size gives for the payload,
\* whatever other instance was constructed before or during the upload.
C11_InstancesIndependent ==
    (srcKind = "buffer" /\ streamSt = "ended") =>
        chunkStreams = ReadLoop(payload, 0, ctorArgs[1], <<>>)

\* The text of the stored manifest message.
StoredText == MessageOf(messages, upResult.primaryID).content

\* The text opens and closes with the three-grave fence.
Framed(text) ==
    /\ Len(text) >= 2 * Len(Ticks)
    /\ SubSeq(text, 1, Len(Ticks)) = Ticks
    /\ SubSeq(text, Len(text) - Len(Ticks) + 1, Len(text)) = Ticks

InnerText(text) == SubSeq(text, Len(Ticks) + 1, Len(text) - Len(Ticks))

LookupCalls == {n \in DOMAIN netLog : netLog[n].op = "getMessage"}

\* C12: manifest decoding fails whenever the stored text lacks the fences or
\* its inside is not valid JSON: no lookup is ever issued for such a text and,
\* once the manifest message has arrived, the download has rejected.
C12_DecodeRejectsUnframed ==
    (~Framed(StoredText) \/ ~JSONParse(InnerText(StoredText)).ok) =>
        /\ LookupCalls = {}
        /\ dlPc \notin {"idle", "manifest"} => dlState = "rejected"

PutPieceCalls == {n \in DOMAIN netLog : netLog[n].op = "putPiece"}

\* C13: empty payload.  The upload of a zero-length source issues no piece
\* upload and stores no piece; if it resolves, fileChunkIDs is empty and the
\* stored manifest lists no id; if it rejects, it does so with a reason; and
\* while it is pending some step of it can always be taken.
C13_EmptyPayload ==
    (payload = <<>> /\ upPc # "idle") =>
        /\ PutPieceCalls = {}
        /\ \A k \in DOMAIN messages : messages[k].kind # "piece"
        /\ upState = "resolved" =>
               /\ upResult.fileChunkIDs = <<>>
               /\ DecodeManifest(MessageOf(messages, upResult.primaryID).content).ids
                      = [kind |-> "array", val |-> <<>>]
        /\ upState = "rejected" => upReason # ""
        /\ upState = "pending" => ENABLED UploadStep

\* The empty buffer uploaded: the manifest is the only message stored.
C13_Witness ==
    /\ payload = <<>>
    /\ srcKind = "buffer"
    /\ upState = "resolved"
    /\ upResult.fileChunkIDs = <<>>
    /\ Len(messages) = 1
    /\ messages[1].kind = "manifest"

\* C14: checkFileStream's message reaches the caller.  The upload of a readable
\* stream that ended without data ends rejected with "Stream is empty.", and the upload of a
\* stream that emits an error ends rejected with "Stream error: " and the
\* error's message.
C14_StreamCheckRejects ==
    /\ (payload = <<>> /\ streamSt = "ended" /\ upPc = "done") =>
           upState = "rejected" /\ upReason = "Stream is empty."
    /\ streamSt = "errored" =>
           upState = "rejected" /\ upReason = "Stream error: read"

\* C15: the upload result.  When upload resolves, primaryID is the id of the
\* stored manifest message, fileName is the caller's name, fileChunkIDs is the
\* id list the stored manifest holds, and it has the id of every piece once:
\* as many ids as pieces, and each piece's id among them.
C15_UploadResult ==
    upState = "resolved" =>
        /\ MessageOf(messages, upResult.primaryID) = ManifestMessage(manifestBody)
        /\ upResult.fileName = fileName
        /\ DecodeManifest(MessageOf(messages, upResult.primaryID).content).ids
               = [kind |-> "array", val |-> upResult.fileChunkIDs]
        /\ Len(upResult.fileChunkIDs) = Len(chunkStreams)
        /\ \A i \in DOMAIN chunkStreams :
               /\ MessageOf(messages, fileIDs[i]).bytes = chunkStreams[i]
               /\ \E k \in DOMAIN upResult.fileChunkIDs : upResult.fileChunkIDs[k] = fileIDs[i]

\* Three pieces whose uploads completed out of index order.
C15_Witness ==
    /\ upState = "resolved"
    /\ Len(chunkStreams) = 3
    /\ Len(upResult.fileChunkIDs) = 3
    /\ upResult.fileChunkIDs # fileIDs
    /\ dlPc = "idle"

PutManifestCalls == {n \in DOMAIN netLog : netLog[n].op = "putManifest"}

\* C16: the manifest is written only after every piece upload has succeeded.
\* It is posted at most once, and in every state in which it has been posted
\* every piece upload of the call has returned its id and none has failed; no
\* step that leaves a failed or unfinished piece upload posts it.
C16_ManifestAfterAllPieces ==
    /\ [](/\ Cardinality(PutManifestCalls) <= 1
          /\ PutManifestCalls # {} =>
                 \A i \in DOMAIN puts : puts[i] = "ok" /\ fileIDs[i] # <<>>
          /\ (manifestSt # "none") = (PutManifestCalls # {}))
    /\ [][PutManifestCalls' # PutManifestCalls =>
              /\ Len(puts') = Len(chunkStreams')
              /\ \A i \in DOMAIN puts' : puts'[i] = "ok"]_vars

\* Posted after three piece uploads that completed out of index order.
C16_Witness ==
    /\ manifestSt = "inflight"
    /\ Len(puts) = 3
    /\ ids # fileIDs
    /\ Cardinality(PutManifestCalls) = 1

\* C17: download step ordering and fan-in.  A lookup is issued only by the
\* step that decodes the fetched manifest, and for the ids it lists; a byte
\* fetch is issued only when every lookup has succeeded; and download resolves
\* only when the bytes of every piece the manifest lists have been received in
\* full.
C17_DownloadOrdering ==
    /\ [](/\ LookupCalls # {} =>
                 /\ dlPc \notin {"idle", "manifest"}
                 /\ DecodeManifest(StoredText).ids = [kind |-> "array", val |-> chunkIDs]
                 /\ Cardinality(LookupCalls) = Len(chunkIDs)
          /\ GetPieceCalls # {} =>
                 /\ Len(lookups) = Len(chunkIDs)
                 /\ \A i \in DOMAIN lookups : lookups[i] = "ok"
          /\ dlState = "resolved" =>
                 /\ Len(buffers) = Len(chunkIDs)
                 /\ \A i \in DOMAIN chunkIDs :
                        \E k \in DOMAIN buffers :
                            buffers[k] = MessageOf(messages, chunkIDs[i]).bytes)
    /\ [][LookupCalls' # LookupCalls => dlPc = "manifest"]_vars

\* Resolved after three lookups and three byte fetches.
C17_Witness ==
    /\ dlState = "resolved"
    /\ Len(chunkIDs) = 3
    /\ Cardinality(LookupCalls) = 3
    /\ Cardinality(GetPieceCalls) = 3
    /\ Len(buffers) = 3

\* C18: sequential, paced piece fetches.  At most one byte fetch is in flight
\* (every fetch but the last issued is complete), the fetches are issued in
\* ascending order of the pieces' index, and a fetch after the first is issued
\* only by the step that ends the pause, when the pacing delay has passed
\* since the piece before it was complete.
C18_SequentialPaced ==
    /\ [](/\ Cardinality(GetPieceCalls) <= Len(buffers) + 1
          /\ \A m, n \in GetPieceCalls :
                 m < n => LeadingInt(netLog[m].arg) < LeadingInt(netLog[n].arg))
    /\ [][(GetPieceCalls' # GetPieceCalls /\ GetPieceCalls # {}) =>
              /\ fetchSt = "pacing"
              /\ Len(buffers) = Cardinality(GetPieceCalls)
              /\ waited >= PacingDelayMs]_vars

\* The third piece is complete and its pause has run out.
C18_Witness ==
    /\ fetchSt = "pacing"
    /\ fetchIdx = 3
    /\ Len(buffers) = 3
    /\ timer = 0
    /\ waited = PacingDelayMs

InFlight(statuses) == Cardinality({i \in DOMAIN statuses : statuses[i] = "inflight"})

PieceOpCalls == {n \in DOMAIN netLog : netLog[n].op \in {"putPiece", "getMessage"}}

\* The widest window that is narrower than the largest number of pieces here.
ConcurrencyWindow == CeilDiv(MaxLen, 2) - 1

\* C19: concurrent piece operations are rate limited.  Every step leaves the
\* piece uploads in flight, and the lookups in flight, within a window that
\* does not grow with the number of pieces, or else it issues at most one
\* piece operation (so that a pause can separate it from the next).
C19_RateLimited ==
    [][\/ /\ InFlight(puts') <= ConcurrencyWindow
          /\ InFlight(lookups') <= ConcurrencyWindow
       \/ Cardinality(PieceOpCalls') <= Cardinality(PieceOpCalls) + 1]_vars

\* A transport call of the upload or of the download failed.
TransportCallFailed ==
    \/ \E i \in DOMAIN puts : puts[i] = "failed"
    \/ manifestSt = "failed"
    \/ DownloadCallFailed

\* C20: no automatic retry.  No transport operation is issued twice within the
\* call (the log holds each operation with its argument once), no step that
\* follows a failure issues an operation, and a call one of whose operations
\* failed has rejected.
C20_NoRetry ==
    /\ [](/\ \A m, n \in DOMAIN netLog : netLog[m] = netLog[n] => m = n
          /\ (\E i \in DOMAIN puts : puts[i] = "failed") \/ manifestSt = "failed"
                 => upState = "rejected"
          /\ DownloadCallFailed => dlState = "rejected")
    /\ [][TransportCallFailed => netLog' = netLog]_vars

\* The manifest's post failed after three pieces were stored: rejected, with
\* three piece posts and one manifest post in the log.
C20_Witness ==
    /\ manifestSt = "failed"
    /\ upState = "rejected"
    /\ Len(puts) = 3
    /\ Len(netLog) = 4

TransportOps == {"putPiece", "putManifest", "getManifest", "getMessage", "getPiece"}

\* s is an initial part of t.
IsPrefix(s, t) == Len(s) <= Len(t) /\ SubSeq(t, 1, Len(s)) = s

\* C21: no compensation on a failed upload.  Every piece whose upload
\* succeeded, before or after another piece's upload failed, is stored with
\* its name and bytes; once a piece upload has failed no step removes or
\* changes a stored message; and no transport operation but the five posts
\* and gets is ever issued.
C21_NoCompensation ==
    /\ [](/\ \A i \in DOMAIN puts :
                 puts[i] = "ok" =>
                     MessageOf(messages, fileIDs[i])
                         = PieceMessage(DisplayName(i - 1, fileName), chunkStreams[i])
          /\ \A n \in DOMAIN netLog : netLog[n].op \in TransportOps)
    /\ [][(\E i \in DOMAIN puts' : puts'[i] = "failed") => IsPrefix(messages, messages')]_vars

\* Rejected on the first piece's failure; the two other pieces are stored.
C21_Witness ==
    /\ upState = "rejected"
    /\ Len(puts) = 3
    /\ puts[1] = "failed"
    /\ puts[2] = "ok"
    /\ puts[3] = "ok"
    /\ Len(messages) = 2

\* C22: a piece fetch that fails mid-stream is not a success.  The step in
\* which a response errors after some of its data arrived rejects the download
\* and adds nothing to buffers; a rejected download stays rejected, with no
\* result; and a result is made of whole pieces only.
C22_PartialReadRejects ==
    /\ [][(fetchSt = "streaming" /\ recv # <<>> /\ fetchSt' = "failed") =>
              /\ dlState' = "rejected"
              /\ buffers' = buffers]_vars
    /\ [][dlState = "rejected" => dlState' = "rejected" /\ dlResult' = <<>>]_vars
    /\ [](/\ \A k \in DOMAIN buffers : buffers[k] = PieceBytes(files[k])
          /\ dlState = "resolved" => dlResult = Concat([k \in DOMAIN files |-> PieceBytes(files[k])]))

\* The second piece's response erred after one of its two bytes.
C22_Witness ==
    /\ fetchSt = "failed"
    /\ fetchIdx = 2
    /\ Len(Concat(recv)) = 1
    /\ Len(PieceBytes(files[2])) = 2
    /\ Len(buffers) = 1
    /\ dlState = "rejected"

\* The attachment getAllFiles is given for piece i of a file named name.
NamedFile(i, name) == [filename |-> DisplayName(i, name), url |-> <<>>]

\* C23: index encoding round trip.  The number parsed from the display name
\* of piece i is i, for every index up to MaxIndex (four digits included) and
\* every file name (with '_', with leading digits), and the comparator orders
\* piece i against its neighbours and against pieces 0, 999 and 1000 as their
\* indices are ordered.
C23_IndexRoundTrip ==
    ixPc = "parsed" =>
        /\ ~ixParsed.nan
        /\ ixParsed.val = ixIndex
        /\ \A j \in {0, ixIndex + 1, 999, 1000} :
               /\ (Compare(NamedFile(ixIndex, ixName), NamedFile(j, ixName)) < 0) = (ixIndex < j)
               /\ (Compare(NamedFile(ixIndex, ixName), NamedFile(j, ixName)) = 0) = (ixIndex = j)

\* Piece 1000 of a file named 7_a: "1000_7_a" parsed as 1000.
C23_Witness ==
    /\ ixPc = "parsed"
    /\ ixIndex = 1000
    /\ ixName = <<"7", "_", "a">>
    /\ ixDisplay = <<"1", "0", "0", "0", "_", "7", "_", "a">>
    /\ ixParsed = [nan |-> FALSE, val |-> 1000]

ManifestsIn(store) == {k \in DOMAIN store : store[k].kind = "manifest"}

\* C24: stored objects are immutable.  No step removes or changes a stored
\* message, those of the earlier upload included; no step of the download
\* changes the store at all; and a resolved upload has added one manifest,
\* under a primary id that no earlier message has.
C24_StoreImmutable ==
    /\ [][IsPrefix(messages, messages')]_vars
    /\ [][dlPc' # "idle" => messages' = messages]_vars
    /\ [](/\ IsPrefix(EarlierStore, messages)
          /\ upState = "resolved" =>
                 /\ Cardinality(ManifestsIn(messages)) = Cardinality(ManifestsIn(EarlierStore)) + 1
                 /\ MessageOf(messages, upResult.primaryID) = ManifestMessage(manifestBody)
                 /\ \A k \in DOMAIN EarlierStore : upResult.primaryID # MessageId(k))

\* The re-upload was downloaded; the store holds the earlier three messages,
\* then the new pieces and the new manifest.
C24_Witness ==
    /\ dlState = "resolved"
    /\ Len(chunkStreams) = 2
    /\ Len(messages) = Len(EarlierStore) + 3
    /\ upResult.primaryID = MessageId(Len(EarlierStore) + 3)
    /\ IsPrefix(EarlierStore, messages)

\* The download's rejection names the chunk id whose lookup failed, or the
\* display name of the piece whose fetch failed.
DownloadRejectionNames ==
    /\ (\E i \in DOMAIN lookups : lookups[i] = "failed") =>
           \E i \in DOMAIN lookups : lookups[i] = "failed" /\ dlReasonArg = chunkIDs[i]
    /\ fetchSt = "failed" => dlReasonArg = files[fetchIdx].filename

\* C25: a rejection identifies what failed.  The upload's rejection names the
\* index or display name of a piece whose upload failed, or a stage when the
\* manifest's post failed; the download's names the chunk id or display name
\* of the piece whose lookup or fetch failed.
C25_RejectionNames ==
    /\ (\E i \in DOMAIN puts : puts[i] = "failed") =>
           \E i \in DOMAIN puts :
               /\ puts[i] = "failed"
               /\ upReasonArg \in {ToText(i - 1), DisplayName(i - 1, fileName)}
    /\ manifestSt = "failed" => upReasonArg # <<>>
    /\ DownloadRejectionNames

\* C26: every call settles.  With the stream's events and the transport's
\* answers arriving, an upload call that was made resolves or rejects, and so
\* does a download call; and a settled call keeps its state, its result and
\* its reason for good.
C26_EveryCallSettles ==
    /\ (upPc # "idle") ~> (upState # "pending")
    /\ (dlPc # "idle") ~> (dlState # "pending")
    /\ [][upState # "pending" =>
              upState' = upState /\ upResult' = upResult /\ upReason' = upReason]_vars
    /\ [][dlState # "pending" =>
              dlState' = dlState /\ dlResult' = dlResult /\ dlReason' = dlReason]_vars

\* The download rejected on one lookup while the others were unanswered, and
\* all of them have been answered since.
C26_Witness ==
    /\ upState = "resolved"
    /\ dlState = "rejected"
    /\ Len(lookups) = 3
    /\ \A i \in DOMAIN lookups : lookups[i] # "inflight"
    /\ \E i \in DOMAIN lookups : lookups[i] = "ok"
=============================================================================
